---- MODULE Spec2Model ----
(***************************************************************************)
(* A model of the menbee-cdk deployment topology.                          *)
(*                                                                         *)
(* bin/cdk.ts builds one DockerImageDeploymentStack.  The stack exists in  *)
(* two variants: the HTTPS variant (src/unnamed/part_000: certificate,     *)
(* listener on 443, redirect on 80, Secrets Manager references) and the    *)
(* HTTP variant (src/unnamed/part_001: one listener on 80, no secrets).    *)
(* The constructor is modelled statement group by statement group, in the  *)
(* order of the source; the variables below are the resource graph it      *)
(* declares.  After the constructor has returned, the declared topology is *)
(* exercised by its environment: the service registers a target, the load  *)
(* balancer probes it, requests arrive from the internet.  Those run-time  *)
(* actions are not code of the repository; they follow section 4.1 and     *)
(* section 6 of the specification and read every parameter from the        *)
(* declared topology.                                                      *)
(***************************************************************************)
EXTENDS Integers, Sequences, FiniteSets, TLC

VARIABLES
    variant,       \* which stack file is lib/docker-image-deployment.ts
    pc,            \* position in bin/cdk.ts and in the constructor
    domainName,    \* props.domainName
    stackEnv,      \* props.env
    sgRules,       \* ingress rules of the security groups
    userData,      \* bootstrap commands of the instances
    asgs,          \* auto scaling groups
    albs,          \* load balancers
    listeners,     \* listeners of the load balancer
    containers,    \* container definitions of the task definition
    services,      \* ECS services
    targetGroups,  \* target groups
    outputs,       \* CfnOutputs
    targets,       \* run time: the targets the service registers
    lastTransition,\* run time: the last eligibility transition
    lastRequest    \* run time: the last request from the internet

descriptor ==
    <<domainName, stackEnv, sgRules, userData, asgs, albs, listeners,
      containers, services, targetGroups, outputs>>

runtime == <<targets, lastTransition, lastRequest>>

vars == <<variant, pc, descriptor, runtime>>

(***************************************************************************)
(* Bounds of the model.                                                    *)
(***************************************************************************)
\* Targets the service registers over a run (a removed target is replaced).
MaxTargets == 2
\* Granularity of the draining clock, in seconds.
TickSeconds == 100

TargetIds == 1..MaxTargets

Variants == {"https", "http"}
\* JavaScript's undefined is modelled by the string "undefined".
EnvAccounts == {"undefined", "123456789012"}
EnvRegions == {"undefined", "", "us-east-1"}

(***************************************************************************)
(* aws-cdk-lib value constructors used by the stack.                       *)
(***************************************************************************)
\* Duration.seconds(n) and Duration.minutes(n), normalised to seconds.
DurationSeconds(n) == n
DurationMinutes(n) == n * 60

\* ec2.Port.tcp(p) and ec2.Port.tcpRange(a, b).
PortTcp(p) == [fromPort |-> p, toPort |-> p]
PortTcpRange(a, b) == [fromPort |-> a, toPort |-> b]

\* securityGroup.addIngressRule(peer, port, description)
IngressRule(sg, peer, port) ==
    [sg |-> sg, peer |-> peer, fromPort |-> port.fromPort, toPort |-> port.toPort]

\* ecs.Secret.fromSecretsManager(secret, field): a reference, never a value.
FromSecretsManager(secretName, field) ==
    [secretName |-> secretName, field |-> field]

(***************************************************************************)
(* The resources the constructor declares.  A definition named Https...    *)
(* is read from src/unnamed/part_000, one named Http... from part_001;     *)
(* the others are the same text in both files.                             *)
(***************************************************************************)
\* ec2SecurityGroup.addIngressRule(anyIpv4, tcp(22), "Allow SSH access")
Ec2SshIngress == IngressRule("Ec2SecurityGroup", "anyIpv4", PortTcp(22))

\* userData.addCommands(...): each command as its shell words, the
\* "user:password" argument of echo split at the colon.
UserDataCommands ==
    << <<"echo", "ec2-user", ":", "your-password-here", "|", "chpasswd">>,
       <<"sed", "-i", "s/PasswordAuthentication no/PasswordAuthentication yes/g",
         "/etc/ssh/sshd_config">>,
       <<"systemctl", "restart", "sshd">>,
       <<"echo", "ECS_CLUSTER=nextjs-cluster", ">>", "/etc/ecs/ecs.config">> >>

\* new autoscaling.AutoScalingGroup(this, 'ASG', {...})
AutoScalingGroupProps(commands) ==
    [id |-> "ASG", minCapacity |-> 1, maxCapacity |-> 1, desiredCapacity |-> 1,
     securityGroup |-> "Ec2SecurityGroup", userData |-> commands]

\* albSecurityGroup.addIngressRule(anyIpv4, tcp(443) | tcp(80))
HttpsAlbIngress == IngressRule("AlbSecurityGroup", "anyIpv4", PortTcp(443))
HttpAlbIngress == IngressRule("AlbSecurityGroup", "anyIpv4", PortTcp(80))

\* new elbv2.ApplicationLoadBalancer(this, 'alb', {...})
AlbProps ==
    [loadBalancerName |-> "nextjs-alb", internetFacing |-> TRUE,
     securityGroup |-> "AlbSecurityGroup"]

\* alb.addListener(...).  The HTTPS variant passes no `open`; aws-cdk-lib
\* documents its default as true.  A listener gets its forward action from
\* addTargets, later in the constructor.
\* Mutant: the listener on port 80 forwards instead of redirecting.
HttpsListenersForwardOn80 ==
    { [id |-> "HttpsListener", port |-> 443, protocol |-> "HTTPS", open |-> TRUE,
       defaultAction |-> [type |-> "none", port |-> 0]],
      [id |-> "HttpListener", port |-> 80, protocol |-> "HTTP", open |-> TRUE,
       defaultAction |-> [type |-> "forward", port |-> 0]] }
HttpsListeners ==
    { [id |-> "HttpsListener", port |-> 443, protocol |-> "HTTPS", open |-> TRUE,
       defaultAction |-> [type |-> "none", port |-> 0]],
      [id |-> "HttpListener", port |-> 80, protocol |-> "HTTP", open |-> TRUE,
       defaultAction |-> [type |-> "redirect", port |-> 443]] }
HttpListeners ==
    { [id |-> "HttpListener", port |-> 80, protocol |-> "HTTP", open |-> TRUE,
       defaultAction |-> [type |-> "none", port |-> 0]] }

\* An open listener lets anyone connect to the load balancer on its port.
OpenListenerRules(ls, alb) ==
    { IngressRule(alb.securityGroup, "anyIpv4", PortTcp(l.port)) : l \in {m \in ls : m.open} }

\* serviceSecurityGroup.addIngressRule(albSecurityGroup, tcp(3000)) and the two
\* ec2SecurityGroup.addIngressRule(albSecurityGroup, ...) calls.
\* Mutant: the dynamic range ends at Docker's older upper limit, 61000.
HttpsServiceIngressTo61000 ==
    { IngressRule("ServiceSecurityGroup", "AlbSecurityGroup", PortTcp(3000)),
      IngressRule("Ec2SecurityGroup", "AlbSecurityGroup", PortTcp(3000)),
      IngressRule("Ec2SecurityGroup", "AlbSecurityGroup", PortTcpRange(32768, 61000)) }
HttpsServiceIngress ==
    { IngressRule("ServiceSecurityGroup", "AlbSecurityGroup", PortTcp(3000)),
      IngressRule("Ec2SecurityGroup", "AlbSecurityGroup", PortTcp(3000)),
      IngressRule("Ec2SecurityGroup", "AlbSecurityGroup", PortTcpRange(32768, 65535)) }
HttpServiceIngress ==
    { IngressRule("ServiceSecurityGroup", "AlbSecurityGroup", PortTcp(3000)),
      IngressRule("Ec2SecurityGroup", "AlbSecurityGroup", PortTcp(3000)),
      IngressRule("Ec2SecurityGroup", "AlbSecurityGroup", PortTcpRange(32768, 65535)) }

\* The container's plain environment (both variants).
Environment ==
    { [name |-> "NODE_ENV", value |-> "production"],
      [name |-> "PORT", value |-> "3000"],
      [name |-> "HOSTNAME", value |-> "0.0.0.0"],
      [name |-> "NEXT_TELEMETRY_DISABLED", value |-> "1"] }

\* secretsmanager.Secret.fromSecretNameV2(this, 'AppSecrets', 'nextjs-app/env')
appSecrets == "nextjs-app/env"

\* The container's secrets: the HTTPS variant names six fields of appSecrets,
\* the HTTP variant declares none.
HttpsSecrets ==
    { [name |-> n, valueFrom |-> FromSecretsManager(appSecrets, n)] :
        n \in {"AUTH_SECRET", "NEXTAUTH_URL", "AUTH_GOOGLE_ID",
               "AUTH_GOOGLE_SECRET", "DATABASE_URL", "AUTH_TRUST_HOST"} }
HttpSecrets == {}

\* healthCheck of taskDefinition.addContainer("NextjsContainer", {...})
HttpsContainerHealthCheck ==
    [command |-> <<"CMD-SHELL", "exit 0">>, interval |-> DurationSeconds(30),
     timeout |-> DurationSeconds(5), retries |-> 3, startPeriod |-> DurationSeconds(60)]
\* Mutant: the timeout is given in minutes.
HttpContainerHealthCheckMinutes ==
    [command |-> <<"CMD-SHELL", "exit 0">>, interval |-> DurationSeconds(30),
     timeout |-> DurationMinutes(5), retries |-> 3, startPeriod |-> DurationSeconds(60)]
HttpContainerHealthCheck ==
    [command |-> <<"CMD-SHELL", "exit 0">>, interval |-> DurationSeconds(30),
     timeout |-> DurationSeconds(5), retries |-> 3, startPeriod |-> DurationSeconds(60)]

\* taskDefinition.addContainer("NextjsContainer", {...}) on the BRIDGE-mode
\* task definition.
NextjsContainer(secrets, healthCheck) ==
    [containerName |-> "nextjs-container", networkMode |-> "bridge",
     portMappings |-> {[containerPort |-> 3000, hostPort |-> 0, protocol |-> "tcp"]},
     essential |-> TRUE,
     startTimeout |-> DurationMinutes(10), stopTimeout |-> DurationMinutes(2),
     environment |-> Environment, secrets |-> secrets, healthCheck |-> healthCheck]

\* new ecs.Ec2Service(this, "Ec2Service", {...})
\* Mutant: the service asks for two tasks.
Ec2ServicePropsTwoTasks ==
    [serviceName |-> "nextjs-service", desiredCount |-> 2,
     container |-> "nextjs-container", enableExecuteCommand |-> TRUE]
Ec2ServiceProps ==
    [serviceName |-> "nextjs-service", desiredCount |-> 1,
     container |-> "nextjs-container", enableExecuteCommand |-> TRUE]

\* healthCheck of listener.addTargets('EcsTargetGroup', {...})
\* Mutant: the two thresholds are swapped.
HttpsTargetGroupHealthCheckSwapped ==
    [path |-> "/", interval |-> DurationSeconds(120), timeout |-> DurationSeconds(60),
     healthyThresholdCount |-> 10, unhealthyThresholdCount |-> 2,
     port |-> "traffic-port", protocol |-> "HTTP"]
\* Mutant: the healthy threshold is 5.
HttpsTargetGroupHealthCheckHealthy5 ==
    [path |-> "/", interval |-> DurationSeconds(120), timeout |-> DurationSeconds(60),
     healthyThresholdCount |-> 5, unhealthyThresholdCount |-> 10,
     port |-> "traffic-port", protocol |-> "HTTP"]
HttpsTargetGroupHealthCheck ==
    [path |-> "/", interval |-> DurationSeconds(120), timeout |-> DurationSeconds(60),
     healthyThresholdCount |-> 2, unhealthyThresholdCount |-> 10,
     port |-> "traffic-port", protocol |-> "HTTP"]
\* Mutant: the unhealthy threshold is 2.
HttpTargetGroupHealthCheckUnhealthy2 ==
    [path |-> "/", interval |-> DurationSeconds(120), timeout |-> DurationSeconds(60),
     healthyThresholdCount |-> 2, unhealthyThresholdCount |-> 2,
     port |-> "traffic-port", protocol |-> "HTTP"]
HttpTargetGroupHealthCheck ==
    [path |-> "/", interval |-> DurationSeconds(120), timeout |-> DurationSeconds(60),
     healthyThresholdCount |-> 2, unhealthyThresholdCount |-> 10,
     port |-> "traffic-port", protocol |-> "HTTP"]

\* deregistrationDelay of listener.addTargets('EcsTargetGroup', {...})
\* Mutant: the delay is 30 s.
HttpsDeregistrationDelay30 == DurationSeconds(30)
HttpsDeregistrationDelay == DurationSeconds(300)
HttpDeregistrationDelay == DurationSeconds(300)

\* httpsListener.addTargets / httpListener.addTargets
EcsTargetGroup(listenerId, healthCheck, delay) ==
    [id |-> "EcsTargetGroup", listener |-> listenerId, port |-> 80, protocol |-> "HTTP",
     targets |-> {"nextjs-service"}, healthCheck |-> healthCheck,
     deregistrationDelay |-> delay]

\* addTargets makes forwarding to the new group the listener's default action.
WithForward(ls, listenerId) ==
    { IF l.id = listenerId
        THEN [l EXCEPT !.defaultAction = [type |-> "forward", port |-> 0]]
        ELSE l : l \in ls }

\* The two CfnOutputs; a template string is the tuple of its parts.
StackOutputs(name) ==
    { [name |-> "LoadBalancerDNS", value |-> <<"alb.loadBalancerDnsName">>],
      [name |-> "DomainName", value |-> <<"https://", name>>] }

\* bin/cdk.ts: region: process.env.CDK_DEFAULT_REGION || 'ap-northeast-1'
OrDefault(v, default) == IF v \in {"undefined", ""} THEN default ELSE v
StackEnv(account, region) ==
    [account |-> account, region |-> OrDefault(region, "ap-northeast-1")]

(***************************************************************************)
(* The initial state: bin/cdk.ts has not run; the stack variant is chosen. *)
(***************************************************************************)
NoTransition == [target |-> 0, from |-> "NONE", to |-> "NONE", probe |-> "none", streak |-> 0]
NoRequest ==
    [dst |-> "none", port |-> 0, outcome |-> "none", target |-> 0, hostPort |-> 0,
     containerPort |-> 0, health |-> "NONE", phase |-> "none", admitted |-> FALSE]
NoTarget ==
    [phase |-> "absent", health |-> "UNKNOWN", passes |-> 0, fails |-> 0,
     drainClock |-> 0, hostPort |-> 0, containerPort |-> 0]

Init ==
    /\ variant \in Variants
    /\ pc = "main"
    /\ domainName = ""
    /\ stackEnv = [account |-> "undefined", region |-> ""]
    /\ sgRules = {}
    /\ userData = <<>>
    /\ asgs = {}
    /\ albs = {}
    /\ listeners = {}
    /\ containers = {}
    /\ services = {}
    /\ targetGroups = {}
    /\ outputs = {}
    /\ targets = [t \in TargetIds |-> NoTarget]
    /\ lastTransition = NoTransition
    /\ lastRequest = NoRequest

(***************************************************************************)
(* bin/cdk.ts and the constructor, one action per group of statements.     *)
(***************************************************************************)
\* new DockerImageDeploymentStack(app, 'MenbeeSchedulerStack', {...}):
\* super(scope, id, props) starts from an empty stack; props.env is read from
\* process.env.CDK_DEFAULT_ACCOUNT and process.env.CDK_DEFAULT_REGION.
NewStackFrom(at) ==
    /\ pc = at
    /\ pc' = "Ec2SecurityGroup"
    /\ domainName' = "menbee-scheduler.com"
    /\ \E envAccount \in EnvAccounts, envRegion \in EnvRegions :
         stackEnv' = StackEnv(envAccount, envRegion)
    /\ sgRules' = {}
    /\ userData' = <<>>
    /\ asgs' = {}
    /\ albs' = {}
    /\ listeners' = {}
    /\ containers' = {}
    /\ services' = {}
    /\ targetGroups' = {}
    /\ outputs' = {}
    /\ UNCHANGED <<variant, runtime>>

\* Mutant: the stack is instantiated again after it was built.
NewStackTwice == NewStackFrom("main") \/ NewStackFrom("done")
\* bin/cdk.ts instantiates the stack once.
NewStack == NewStackFrom("main")

Ec2SecurityGroup ==
    /\ pc = "Ec2SecurityGroup"
    /\ pc' = "UserData"
    /\ sgRules' = sgRules \cup {Ec2SshIngress}
    /\ UNCHANGED <<variant, runtime, domainName, stackEnv, userData, asgs, albs,
                   listeners, containers, services, targetGroups, outputs>>

UserData ==
    /\ pc = "UserData"
    /\ pc' = "AutoScalingGroup"
    /\ userData' = userData \o UserDataCommands
    /\ UNCHANGED <<variant, runtime, domainName, stackEnv, sgRules, asgs, albs,
                   listeners, containers, services, targetGroups, outputs>>

AutoScalingGroup ==
    /\ pc = "AutoScalingGroup"
    /\ pc' = "AlbSecurityGroup"
    /\ asgs' = asgs \cup {AutoScalingGroupProps(userData)}
    /\ UNCHANGED <<variant, runtime, domainName, stackEnv, sgRules, userData, albs,
                   listeners, containers, services, targetGroups, outputs>>

AlbSecurityGroup ==
    /\ pc = "AlbSecurityGroup"
    /\ pc' = "AddListener"
    /\ sgRules' = sgRules \cup
                    {IF variant = "https" THEN HttpsAlbIngress ELSE HttpAlbIngress}
    /\ albs' = albs \cup {AlbProps}
    /\ UNCHANGED <<variant, runtime, domainName, stackEnv, userData, asgs,
                   listeners, containers, services, targetGroups, outputs>>

AddListener ==
    /\ pc = "AddListener"
    /\ pc' = "ServiceSecurityGroup"
    /\ LET ls == IF variant = "https" THEN HttpsListeners ELSE HttpListeners
       IN  /\ listeners' = listeners \cup ls
           /\ sgRules' = sgRules \cup UNION {OpenListenerRules(ls, a) : a \in albs}
    /\ UNCHANGED <<variant, runtime, domainName, stackEnv, userData, asgs, albs,
                   containers, services, targetGroups, outputs>>

ServiceSecurityGroup ==
    /\ pc = "ServiceSecurityGroup"
    /\ pc' = "AddContainer"
    /\ sgRules' = sgRules \cup
                    (IF variant = "https" THEN HttpsServiceIngress ELSE HttpServiceIngress)
    /\ UNCHANGED <<variant, runtime, domainName, stackEnv, userData, asgs, albs,
                   listeners, containers, services, targetGroups, outputs>>

AddContainer ==
    /\ pc = "AddContainer"
    /\ pc' = "Ec2Service"
    /\ containers' = containers \cup
         {IF variant = "https"
            THEN NextjsContainer(HttpsSecrets, HttpsContainerHealthCheck)
            ELSE NextjsContainer(HttpSecrets, HttpContainerHealthCheck)}
    /\ UNCHANGED <<variant, runtime, domainName, stackEnv, sgRules, userData, asgs, albs,
                   listeners, services, targetGroups, outputs>>

Ec2Service ==
    /\ pc = "Ec2Service"
    /\ pc' = "AddTargets"
    /\ services' = services \cup {Ec2ServiceProps}
    /\ UNCHANGED <<variant, runtime, domainName, stackEnv, sgRules, userData, asgs, albs,
                   listeners, containers, targetGroups, outputs>>

AddTargets ==
    /\ pc = "AddTargets"
    /\ pc' = "CfnOutput"
    /\ LET id == IF variant = "https" THEN "HttpsListener" ELSE "HttpListener"
           group == IF variant = "https"
                      THEN EcsTargetGroup(id, HttpsTargetGroupHealthCheck,
                                          HttpsDeregistrationDelay)
                      ELSE EcsTargetGroup(id, HttpTargetGroupHealthCheck,
                                          HttpDeregistrationDelay)
       IN  /\ targetGroups' = targetGroups \cup {group}
           /\ listeners' = WithForward(listeners, id)
    /\ UNCHANGED <<variant, runtime, domainName, stackEnv, sgRules, userData, asgs, albs,
                   containers, services, outputs>>

CfnOutput ==
    /\ pc = "CfnOutput"
    /\ pc' = "done"
    /\ outputs' = outputs \cup StackOutputs(domainName)
    /\ UNCHANGED <<variant, runtime, domainName, stackEnv, sgRules, userData, asgs, albs,
                   listeners, containers, services, targetGroups>>

Construct ==
    \/ NewStack
    \/ Ec2SecurityGroup
    \/ UserData
    \/ AutoScalingGroup
    \/ AlbSecurityGroup
    \/ AddListener
    \/ ServiceSecurityGroup
    \/ AddContainer
    \/ Ec2Service
    \/ AddTargets
    \/ CfnOutput

(***************************************************************************)
(* The deployed topology at run time.  None of this is code of the         *)
(* repository: the eligibility machine follows section 4.1 of the          *)
(* specification, the network follows section 6, and every parameter is    *)
(* read from the declared resources.                                       *)
(***************************************************************************)
\* Ports a request from the internet may name.
PortSample == {22, 80, 443, 3000, 32768}
\* Host ports a bridge-mode task may be given for hostPort 0.
EphemeralPortSample == {32768, 65535}

Min(a, b) == IF a < b THEN a ELSE b

\* The security groups a source belongs to: the load balancer's nodes are
\* members of its group, an internet host of none.
MemberOf(src) == IF src = "alb" THEN {a.securityGroup : a \in albs} ELSE {}

PeerMatches(peer, src) == peer = "anyIpv4" \/ peer \in MemberOf(src)

\* A security group admits what one of its ingress rules names.
Admits(sg, src, port) ==
    \E r \in sgRules :
        /\ r.sg = sg
        /\ PeerMatches(r.peer, src)
        /\ r.fromPort <= port
        /\ port <= r.toPort

AlbAdmits(src, port) == \E a \in albs : Admits(a.securityGroup, src, port)
InstanceAdmits(src, port) == \E g \in asgs : Admits(g.securityGroup, src, port)

\* Mutant: a draining target is no longer probed.
LiveWhileRegistered(t) == targets[t].phase = "registered"
\* The targets the load balancer knows and probes.
Live(t) == targets[t].phase \in {"registered", "draining"}
Eligible(t) == targets[t].phase = "registered" /\ targets[t].health = "HEALTHY"

\* Bridge mode: hostPort 0 is a host port of the dynamic range.
HostPorts(m) == IF m.hostPort = 0 THEN EphemeralPortSample ELSE {m.hostPort}

\* The service places a task and registers it with the target group, as long
\* as fewer than desiredCount are placed; targets are numbered in order.
RegisterTarget(t) ==
    /\ pc = "done"
    /\ targets[t].phase = "absent"
    /\ \A u \in TargetIds : u < t => targets[u].phase # "absent"
    /\ \E g \in targetGroups, s \in services, c \in containers :
         /\ s.serviceName \in g.targets
         /\ c.containerName = s.container
         /\ Cardinality({u \in TargetIds : Live(u)}) < s.desiredCount
         /\ \E m \in c.portMappings : \E hp \in HostPorts(m) :
              targets' = [targets EXCEPT ![t] =
                 [phase |-> "registered", health |-> "UNKNOWN", passes |-> 0,
                  fails |-> 0, drainClock |-> 0, hostPort |-> hp,
                  containerPort |-> m.containerPort]]
    /\ UNCHANGED <<variant, pc, descriptor, lastTransition, lastRequest>>

\* A passing probe: the run of failures ends, the run of passes grows (it is
\* not counted past the threshold), and a target that is not HEALTHY becomes
\* HEALTHY with the healthyThresholdCount-th pass.  A draining target that
\* is eligible again is back in service.
ProbePass(t) ==
    /\ pc = "done"
    /\ Live(t)
    /\ \E g \in targetGroups :
         LET n == g.healthCheck.healthyThresholdCount
             old == targets[t]
             p == Min(old.passes + 1, n)
             up == old.health # "HEALTHY" /\ p >= n
         IN  /\ targets' = [targets EXCEPT ![t] =
                   [old EXCEPT !.passes = p, !.fails = 0,
                               !.health = IF up THEN "HEALTHY" ELSE @,
                               !.phase = IF up THEN "registered" ELSE @,
                               !.drainClock = IF up THEN 0 ELSE @]]
             /\ lastTransition' =
                   IF up THEN [target |-> t, from |-> old.health, to |-> "HEALTHY",
                               probe |-> "pass", streak |-> p]
                         ELSE lastTransition
    /\ UNCHANGED <<variant, pc, descriptor, lastRequest>>

\* A failing probe: the run of passes ends, the run of failures grows, and a
\* HEALTHY target becomes UNHEALTHY with the unhealthyThresholdCount-th
\* failure and starts draining.
ProbeFail(t) ==
    /\ pc = "done"
    /\ Live(t)
    /\ \E g \in targetGroups :
         LET m == g.healthCheck.unhealthyThresholdCount
             old == targets[t]
             f == Min(old.fails + 1, m)
             down == old.health = "HEALTHY" /\ f >= m
         IN  /\ targets' = [targets EXCEPT ![t] =
                   [old EXCEPT !.fails = f, !.passes = 0,
                               !.health = IF down THEN "UNHEALTHY" ELSE @,
                               !.phase = IF down THEN "draining" ELSE @,
                               !.drainClock = IF down THEN 0 ELSE @]]
             /\ lastTransition' =
                   IF down THEN [target |-> t, from |-> old.health, to |-> "UNHEALTHY",
                                 probe |-> "fail", streak |-> f]
                           ELSE lastTransition
    /\ UNCHANGED <<variant, pc, descriptor, lastRequest>>

\* Time passes for a draining target.
Tick(t) ==
    /\ pc = "done"
    /\ targets[t].phase = "draining"
    /\ \E g \in targetGroups :
         /\ targets[t].drainClock < g.deregistrationDelay
         /\ targets' = [targets EXCEPT ![t].drainClock = @ + TickSeconds]
    /\ UNCHANGED <<variant, pc, descriptor, lastTransition, lastRequest>>

\* A target that has drained for the deregistration delay is removed; its
\* probe counters and its host port go with it.
Deregister(t) ==
    /\ pc = "done"
    /\ targets[t].phase = "draining"
    /\ \E g \in targetGroups :
         /\ targets[t].drainClock >= g.deregistrationDelay
         /\ targets' = [targets EXCEPT ![t] =
               [NoTarget EXCEPT !.phase = "removed", !.health = targets[t].health,
                                !.drainClock = targets[t].drainClock]]
    /\ UNCHANGED <<variant, pc, descriptor, lastTransition, lastRequest>>

\* A request from the internet to the instance: the instance's security
\* group decides.
InstanceRequest(port) ==
    /\ pc = "done"
    /\ lastRequest' = [NoRequest EXCEPT
          !.dst = "instance", !.port = port,
          !.admitted = InstanceAdmits("internet", port),
          !.outcome = IF InstanceAdmits("internet", port) THEN "accepted" ELSE "dropped"]
    /\ UNCHANGED <<variant, pc, descriptor, targets, lastTransition>>

\* A request from the internet to the load balancer: its security group
\* admits it or not, the listener on the port redirects it or forwards it to
\* an eligible target, on the target's host port.
AlbRequest(port) ==
    /\ pc = "done"
    /\ LET ls == {l \in listeners : l.port = port}
           req == [NoRequest EXCEPT !.dst = "alb", !.port = port]
       IN  IF ~AlbAdmits("internet", port)
             THEN lastRequest' = [req EXCEPT !.outcome = "dropped"]
           ELSE IF ls = {}
             THEN lastRequest' = [req EXCEPT !.admitted = TRUE, !.outcome = "refused"]
           ELSE \E l \in ls :
             IF l.defaultAction.type = "redirect"
               THEN lastRequest' = [req EXCEPT !.admitted = TRUE, !.outcome = "redirect",
                                               !.hostPort = l.defaultAction.port]
             ELSE IF l.defaultAction.type = "forward" /\ \E t \in TargetIds : Eligible(t)
               THEN \E t \in {u \in TargetIds : Eligible(u)} :
                      lastRequest' = [req EXCEPT
                         !.admitted = InstanceAdmits("alb", targets[t].hostPort),
                         !.outcome = "forward", !.target = t,
                         !.hostPort = targets[t].hostPort,
                         !.containerPort = targets[t].containerPort,
                         !.health = targets[t].health, !.phase = targets[t].phase]
             ELSE lastRequest' = [req EXCEPT !.admitted = TRUE, !.outcome = "unavailable"]
    /\ UNCHANGED <<variant, pc, descriptor, targets, lastTransition>>

Run ==
    \/ \E t \in TargetIds : RegisterTarget(t)
    \/ \E t \in TargetIds : ProbePass(t)
    \/ \E t \in TargetIds : ProbeFail(t)
    \/ \E t \in TargetIds : Tick(t)
    \/ \E t \in TargetIds : Deregister(t)
    \/ \E port \in PortSample : InstanceRequest(port)
    \/ \E port \in PortSample : AlbRequest(port)

Next == Construct \/ Run

Spec == Init /\ [][Next]_vars

(***************************************************************************)
(* Properties.                                                             *)
(***************************************************************************)
EphemeralPortRange == 32768..65535

\* C2: a target that starts in UNKNOWN becomes HEALTHY exactly with its
\* healthyThresholdCount-th consecutive passing probe: while it is UNKNOWN it
\* has fewer consecutive passes, the transition out of UNKNOWN is a passing
\* probe that completes the run, and with the configured policy (path "/",
\* interval 120 s, timeout 60 s, thresholds 2 and 10) the run is 2 long.
C2_HealthyAfterThreshold ==
    /\ \A g \in targetGroups :
         /\ g.healthCheck.path = "/"
         /\ g.healthCheck.interval = 120
         /\ g.healthCheck.timeout = 60
         /\ g.healthCheck.healthyThresholdCount = 2
         /\ g.healthCheck.unhealthyThresholdCount = 10
    /\ \A t \in TargetIds :
         Live(t) /\ targets[t].health = "UNKNOWN" => targets[t].passes < 2
    /\ lastTransition.from = "UNKNOWN" =>
         /\ lastTransition.to = "HEALTHY"
         /\ lastTransition.probe = "pass"
         /\ lastTransition.streak = 2

\* C2's case: a target left UNKNOWN for HEALTHY and is in service.
C2_Witness ==
    /\ lastTransition.from = "UNKNOWN"
    /\ lastTransition.to = "HEALTHY"
    /\ Eligible(lastTransition.target)

\* C3: a HEALTHY target becomes UNHEALTHY exactly with its
\* unhealthyThresholdCount-th consecutive failing probe (the 10th as
\* configured): while it is HEALTHY it has fewer consecutive failures, a
\* passing probe ends the run of failures, and the transition to UNHEALTHY is
\* a failing probe that completes a run of 10.
C3_UnhealthyAfterThreshold ==
    /\ \A t \in TargetIds :
         /\ Live(t) /\ targets[t].health = "HEALTHY" => targets[t].fails < 10
         /\ targets[t].passes > 0 => targets[t].fails = 0
    /\ lastTransition.to = "UNHEALTHY" =>
         /\ lastTransition.from = "HEALTHY"
         /\ lastTransition.probe = "fail"
         /\ lastTransition.streak = 10

\* C3's case: a HEALTHY target failed its way to UNHEALTHY.
C3_Witness ==
    /\ lastTransition.to = "UNHEALTHY"
    /\ targets[lastTransition.target].health = "UNHEALTHY"
    /\ targets[lastTransition.target].fails = 10

NeverBackToUnknown ==
    \A t \in TargetIds :
        targets[t].phase # "absent" /\ targets[t].health # "UNKNOWN"
            => targets'[t].health # "UNKNOWN"

\* C4: an UNHEALTHY target returns to HEALTHY with its
\* healthyThresholdCount-th (2nd) consecutive passing probe and not before,
\* a passing probe is always accepted while it is UNHEALTHY (the state is not
\* absorbing), and no step takes a target that has left UNKNOWN back to it.
C4_UnhealthyRecovers ==
    /\ [](/\ \A t \in TargetIds :
               Live(t) /\ targets[t].health = "UNHEALTHY"
                  => targets[t].passes < 2 /\ ENABLED ProbePass(t)
          /\ lastTransition.from = "UNHEALTHY" =>
               /\ lastTransition.to = "HEALTHY"
               /\ lastTransition.probe = "pass"
               /\ lastTransition.streak = 2)
    /\ [][NeverBackToUnknown]_vars

\* C4's case: a target was UNHEALTHY and is HEALTHY and in service again.
C4_Witness ==
    /\ lastTransition.from = "UNHEALTHY"
    /\ lastTransition.to = "HEALTHY"
    /\ Eligible(lastTransition.target)

\* C5: a request is forwarded only to a target that is HEALTHY and in
\* service; a target that turns UNHEALTHY is draining until it is removed,
\* and it is removed only once it has drained for the configured
\* deregistration delay of 300 s.
C5_ForwardOnlyEligible ==
    /\ lastRequest.outcome = "forward" =>
         lastRequest.health = "HEALTHY" /\ lastRequest.phase = "registered"
    /\ \A g \in targetGroups : g.deregistrationDelay = 300
    /\ \A t \in TargetIds :
         /\ targets[t].health = "UNHEALTHY" => targets[t].phase \in {"draining", "removed"}
         /\ targets[t].phase = "removed" => targets[t].drainClock >= 300

\* C5's case: a target has drained and was removed.
C5_Witness == \E t \in TargetIds : targets[t].phase = "removed"

\* C6: every declared health-check policy, the target group's and the
\* container's, in both variants, has timeout < interval and an unhealthy
\* threshold (retries) of at least 1; the finished stack declares both.
C6_PoliciesValid ==
    /\ \A c \in containers :
         /\ c.healthCheck.timeout < c.healthCheck.interval
         /\ c.healthCheck.retries >= 1
    /\ \A g \in targetGroups :
         /\ g.healthCheck.timeout < g.healthCheck.interval
         /\ g.healthCheck.unhealthyThresholdCount >= 1
    /\ pc = "done" => containers # {} /\ targetGroups # {}

\* C6's case: the constructor has declared both policies.
C6_Witness == pc = "done" /\ containers # {} /\ targetGroups # {}

Entered == lastRequest.outcome \notin {"none", "dropped"}

\* What the load balancer forwards reaches container port 3000 on a host port
\* of the dynamic range that the instance's group admits from the load
\* balancer's group, and the internet reaches neither port 3000 nor the
\* dynamic range of the instance.
ForwardPath ==
    /\ lastRequest.outcome = "forward" =>
         /\ lastRequest.containerPort = 3000
         /\ lastRequest.hostPort \in EphemeralPortRange
         /\ lastRequest.admitted
    /\ \A c \in containers : \A m \in c.portMappings :
         /\ m.containerPort = 3000
         /\ \A hp \in HostPorts(m) :
              hp \in EphemeralPortRange /\ (pc = "done" => InstanceAdmits("alb", hp))
    /\ \A r \in sgRules :
         r.peer = "anyIpv4" /\ r.sg \in {g.securityGroup : g \in asgs}
            => r.toPort < 3000 \/ (r.fromPort > 3000 /\ r.toPort < 32768)
    /\ lastRequest.dst = "instance"
         /\ (lastRequest.port = 3000 \/ lastRequest.port \in EphemeralPortRange)
         => lastRequest.outcome = "dropped"

\* C8, as claimed: whatever enters from the internet enters at the load
\* balancer, on port 80 in the HTTP variant and on port 443 in the HTTPS
\* variant, and what is forwarded takes the path above.
C8_OnlyThroughLoadBalancer ==
    /\ Entered =>
         /\ lastRequest.dst = "alb"
         /\ lastRequest.port = (IF variant = "http" THEN 80 ELSE 443)
    /\ \A r \in sgRules :
         r.peer = "anyIpv4" =>
            /\ r.sg \in {a.securityGroup : a \in albs}
            /\ r.fromPort = r.toPort
            /\ r.fromPort = (IF variant = "http" THEN 80 ELSE 443)
    /\ ForwardPath

\* C8, amended: the internet is admitted at the load balancer on port 80
\* (HTTP variant) or on ports 443 and 80 (HTTPS variant), and at the instance
\* on port 22 (SSH) only; what is forwarded takes the path above.
C8_EntryPoints ==
    /\ Entered =>
         \/ /\ lastRequest.dst = "alb"
            /\ lastRequest.port \in (IF variant = "http" THEN {80} ELSE {443, 80})
         \/ /\ lastRequest.dst = "instance"
            /\ lastRequest.port = 22
    /\ \A r \in sgRules :
         r.peer = "anyIpv4" =>
            /\ r.fromPort = r.toPort
            /\ \/ /\ r.sg \in {a.securityGroup : a \in albs}
                  /\ r.fromPort \in (IF variant = "http" THEN {80} ELSE {443, 80})
               \/ /\ r.sg = "Ec2SecurityGroup"
                  /\ r.fromPort = 22
    /\ ForwardPath

\* C8's case: a request from the internet was forwarded to the top of the
\* dynamic range and the instance admitted it.
C8_Witness ==
    /\ lastRequest.outcome = "forward"
    /\ lastRequest.hostPort = 65535
    /\ lastRequest.admitted

\* What chpasswd reads from an `echo user:password | chpasswd` command: the
\* password after the colon.
PasswordLiterals(cmd) ==
    IF Len(cmd) > 0 /\ cmd[Len(cmd)] = "chpasswd"
      THEN {cmd[i + 1] : i \in {j \in 1..(Len(cmd) - 1) : cmd[j] = ":"}}
      ELSE {}

\* C9, as claimed: the declared topology names its secrets and holds no
\* value of one: every container secret is a reference to a field of the
\* external secret, no plain environment variable has the name of a
\* secret-backed one, and no bootstrap command carries a credential.
C9_NoSecretLiteral ==
    /\ \A c \in containers :
         /\ \A x \in c.secrets :
              x.valueFrom = [secretName |-> "nextjs-app/env", field |-> x.name]
         /\ {x.name : x \in c.secrets} \cap {e.name : e \in c.environment} = {}
    /\ \A i \in 1..Len(userData) : PasswordLiterals(userData[i]) = {}
    /\ \A g \in asgs : \A i \in 1..Len(g.userData) : PasswordLiterals(g.userData[i]) = {}

\* C10: once the constructor has returned, no step (no probe, no eligibility
\* transition, no request) changes the declared topology: domain name, ports,
\* port range, health-check parameters and deregistration delay stay as built.
C10_DescriptorImmutable == [][pc = "done" => descriptor' = descriptor]_vars

\* C10's case: the stack is built, with its domain name, and the machine has
\* gone through HEALTHY to UNHEALTHY and requests have been answered.
C10_Witness ==
    /\ pc = "done"
    /\ domainName = "menbee-scheduler.com"
    /\ lastTransition.to = "UNHEALTHY"
    /\ lastRequest.outcome = "unavailable"

\* C11: in the HTTPS variant a request that arrives at the load balancer on
\* port 80 is answered with a redirect to port 443 and is not forwarded; a
\* request is forwarded only when it arrived on port 443.  The declared
\* listeners say the same: the one on 80 redirects to 443, and the only
\* listener that forwards is the one on 443.
C11_HttpRedirected ==
    variant = "https" =>
        /\ lastRequest.dst = "alb" /\ lastRequest.port = 80 /\ Entered =>
             lastRequest.outcome = "redirect" /\ lastRequest.hostPort = 443
        /\ lastRequest.outcome = "forward" => lastRequest.port = 443
        /\ \A l \in listeners :
             /\ l.port = 80 => l.defaultAction = [type |-> "redirect", port |-> 443]
             /\ l.defaultAction.type = "forward" => l.port = 443
        /\ pc = "done" =>
             /\ \E l \in listeners : l.port = 80
             /\ \E l \in listeners : l.port = 443 /\ l.defaultAction.type = "forward"

\* C11's case: in the HTTPS variant a request on port 80 was redirected
\* although a target was eligible for forwarded traffic.
C11_Witness ==
    /\ variant = "https"
    /\ lastRequest.dst = "alb"
    /\ lastRequest.port = 80
    /\ lastRequest.outcome = "redirect"
    /\ \E t \in TargetIds : Eligible(t)

====
